---- MODULE Spec2Model ----
(***************************************************************************)
(* anglosaxon: a streaming XML-to-text converter.  This module models the  *)
(* streaming executor process() of src/main.rs together with the text      *)
(* filters it applies.                                                      *)
(*                                                                          *)
(* Text is a sequence of characters; a character is a one-symbol string,    *)
(* the control characters being named (TAB, NL, CR, BSL for backslash,      *)
(* QUOT, APOS).  Tag names and attribute names are atomic strings.          *)
(***************************************************************************)
EXTENDS Integers, Sequences, FiniteSets, TLC

VARIABLES
    instructions,   \* process(instructions, ..): the compiled program, read-only
    reader,         \* the xml EventReader: its phase and its stack of open elements
    wev,            \* the item last pulled from the reader
    events,         \* the items pulled so far that process() does not ignore, in order
    parent_attrs,   \* process(): Vec of the attribute lists of the open ancestors
    parent_tags,    \* process(): Vec of the tag names of the open ancestors
    output,         \* the bytes written to the output sink so far
    trace,          \* the actions executed so far, each with the text it wrote
    status,         \* "running", or how process() ended: "ok", "err", "panic"
    error,          \* the message of the error process() returned
    f_chain,        \* Filters::apply(&self, s): self, a chain of filters
    f_text,         \* Filters::apply(&self, s): the text s
    f_out,          \* what the filter call returned
    argv,           \* parse_to_instructions(argv): the command line, one entry per flag
    args,           \* parse_to_instructions: the (name, values) pairs in typed order
    compiled        \* what parse_to_instructions returned

\* the variables of process()
processVars == <<instructions, reader, wev, events, parent_attrs, parent_tags,
                 output, trace, status, error>>
\* the variables of a call of the filters
filterVars == <<f_chain, f_text, f_out>>
\* the variables of parse_to_instructions
compileVars == <<argv, args, compiled>>

vars == <<instructions, reader, wev, events, parent_attrs, parent_tags,
          output, trace, status, error, f_chain, f_text, f_out, argv, args, compiled>>

\* no filter call is under way
FilterIdle == f_chain = <<>> /\ f_text = <<>> /\ f_out = [fn |-> "none"]
\* no compilation is under way
CompileIdle == argv = <<>> /\ args = <<>> /\ compiled = [kind |-> "none"]

-----------------------------------------------------------------------------
(* Bounds of the model *)

\* most tag-open events in one run
MaxElems == 3
\* deepest nesting of open elements the event source produces
MaxDepth == 3
\* longest text given to a filter
MaxTextLen == 2
\* longest filter chain applied
MaxChainLen == 2
\* most flag occurrences on a command line
MaxArgs == 3
\* most "../" and "./" markers in front of an attribute specifier
MaxPrefixes == 2
\* most filter names behind an attribute specifier
MaxFilterNames == 2

-----------------------------------------------------------------------------
(* Characters and text *)

TAB == "TAB"
NL == "NL"
CR == "CR"
BSL == "BSL"
QUOT == "QUOT"
APOS == "APOS"

RECURSIVE Flatten(_)
\* the concatenation of a sequence of sequences
Flatten(ss) ==
    IF ss = <<>> THEN <<>> ELSE Head(ss) \o Flatten(Tail(ss))

\* Cow<str>: a text that is either borrowed from the input or newly allocated
Borrowed(s) == [owned |-> FALSE, str |-> s]
Owned(s) == [owned |-> TRUE, str |-> s]

-----------------------------------------------------------------------------
(* Text filters *)

\* char::escape_default for the characters of the model (all ASCII)
EscapeDefaultChar(c) ==
    CASE c = TAB -> <<BSL, "t">>
      [] c = CR -> <<BSL, "r">>
      [] c = NL -> <<BSL, "n">>
      [] c = APOS -> <<BSL, APOS>>
      [] c = QUOT -> <<BSL, QUOT>>
      [] c = BSL -> <<BSL, BSL>>
      [] OTHER -> <<c>>

\* str::replace(from, to) for a one-character pattern
Replace(s, from, to) ==
    Flatten([i \in 1..Len(s) |-> IF s[i] = from THEN to ELSE <<s[i]>>])

\* the test of TSVEscape: does the text hold a character the filter looks for
TSVNeedsEscape(s) ==
    \E i \in 1..Len(s) : s[i] = NL \/ s[i] = TAB \/ s[i] = CR \/ s[i] = BSL

\* the three replacements TSVEscape makes
TSVReplace(s) ==
    Replace(Replace(Replace(s, NL, <<BSL, "n">>), TAB, <<BSL, "t">>), CR, <<BSL, "r">>)

\* the text UnixEscape produces
UnixEscapeText(s) ==
    Flatten([i \in 1..Len(s) |-> EscapeDefaultChar(s[i])])

\* TextFilter::apply
TextFilterApply(f, s) ==
    CASE f = "Nothing" -> s
      [] f = "UnixEscape" -> Owned(UnixEscapeText(s.str))
      [] f = "TSVEscape" ->
            IF TSVNeedsEscape(s.str) THEN Owned(TSVReplace(s.str)) ELSE s

RECURSIVE FiltersApplyFrom_RightToLeft(_, _, _)
\* mutant: the last filter of the chain is applied first
FiltersApplyFrom_RightToLeft(filters, k, s) ==
    IF k > Len(filters) THEN s
    ELSE TextFilterApply(filters[k], FiltersApplyFrom_RightToLeft(filters, k + 1, s))

RECURSIVE FiltersApplyFrom(_, _, _)
\* the loop of Filters::apply from filter number k on
FiltersApplyFrom(filters, k, s) ==
    IF k > Len(filters) THEN s
    ELSE FiltersApplyFrom(filters, k + 1, TextFilterApply(filters[k], s))

\* Filters::apply
FiltersApply(filters, s) == FiltersApplyFrom(filters, 1, Borrowed(s))

-----------------------------------------------------------------------------
(* Actions, instructions, attributes *)

RawString(s) == [type |-> "RawString", s |-> s]
Attribute(attr, filters) == [type |-> "Attribute", attr |-> attr, filters |-> filters]
AttributeWithDefault(attr, default, filters) ==
    [type |-> "AttributeWithDefault", attr |-> attr, default |-> default,
     filters |-> filters]
ParentAttribute(level, attr, filters) ==
    [type |-> "ParentAttribute", level |-> level, attr |-> attr, filters |-> filters]
ParentAttributeWithDefault(level, attr, default, filters) ==
    [type |-> "ParentAttributeWithDefault", level |-> level, attr |-> attr,
     default |-> default, filters |-> filters]

\* mutant: the with-default variant is not counted
is_parent_attr_RequiredOnly(action) == action.type = "ParentAttribute"

\* Action::is_parent_attr
is_parent_attr(action) ==
    action.type \in {"ParentAttribute", "ParentAttributeWithDefault"}

StartDocumentInstr(actions) == [kind |-> "StartDocument", actions |-> actions]
StartTag(tag, actions) == [kind |-> "StartTag", tag |-> tag, actions |-> actions]
EndTag(tag, actions) == [kind |-> "EndTag", tag |-> tag, actions |-> actions]
EndDocumentInstr(actions) == [kind |-> "EndDocument", actions |-> actions]

\* xml::attribute::OwnedAttribute, by its local name and value
OwnedAttribute(local_name, value) == [local_name |-> local_name, value |-> value]

\* the local names of an attribute list, in order
AttrNames(attributes) == [i \in 1..Len(attributes) |-> attributes[i].local_name]

\* the positions of the attributes of that local name
AttrMatches(attributes, attr) ==
    {i \in 1..Len(attributes) : attributes[i].local_name = attr}

\* mutant: the last attribute of that name is the one taken
FirstMatch_Last(attributes, attr) ==
    CHOOSE i \in AttrMatches(attributes, attr) :
        \A j \in AttrMatches(attributes, attr) : i >= j

\* filter_map(..).next(): the position of the first attribute of that name
FirstMatch(attributes, attr) ==
    CHOOSE i \in AttrMatches(attributes, attr) :
        \A j \in AttrMatches(attributes, attr) : i <= j

\* results of a step that can fail
Ok(text) == [kind |-> "ok", text |-> text]
Err(msg) == [kind |-> "err", error |-> msg]
Panic(msg) == [kind |-> "panic", error |-> msg]

RECURSIVE JoinComma(_)
\* Vec<&str>::join(",")
JoinComma(names) ==
    IF names = <<>> THEN <<>>
    ELSE IF Len(names) = 1 THEN <<names[1]>>
    ELSE <<names[1], ",">> \o JoinComma(Tail(names))

\* the message of get_attr's error
NoAttributeMessage(attributes, attr, tag) ==
    <<"No attribute ", attr, " found for element ", tag, ". Attributes: ">>
        \o JoinComma(AttrNames(attributes))

\* get_attr: the value of the first attribute of that name, or an error
get_attr(attributes, attr, tag) ==
    IF AttrMatches(attributes, attr) # {}
    THEN Ok(attributes[FirstMatch(attributes, attr)].value)
    ELSE Err(NoAttributeMessage(attributes, attr, tag))

\* mutant: an absent attribute gives the empty text, not the default
attr_or_default_Empty(attributes, attr, default) ==
    IF AttrMatches(attributes, attr) # {}
    THEN attributes[FirstMatch(attributes, attr)].value
    ELSE <<>>

\* filter_map(..).next().unwrap_or(default)
attr_or_default(attributes, attr, default) ==
    IF AttrMatches(attributes, attr) # {}
    THEN attributes[FirstMatch(attributes, attr)].value
    ELSE default

-----------------------------------------------------------------------------
(* The executor: process() *)

\* mutant: any attribute action counts, not only the ancestor ones
has_parent_attributes_AnyAttribute(instrs) ==
    \E j \in 1..Len(instrs) :
        \E a \in 1..Len(instrs[j].actions) : instrs[j].actions[a].type # "RawString"

\* has_parent_attributes: does any action of the program read an ancestor
has_parent_attributes(instrs) ==
    \E j \in 1..Len(instrs) :
        \E a \in 1..Len(instrs[j].actions) : is_parent_attr(instrs[j].actions[a])

\* mutant: the test is off by one
LevelExceedsDepth_OffByOne(level, pa) == level > Len(pa) + 1

\* the test made before an ancestor is read: level > parent_attrs.len()
LevelExceedsDepth(level, pa) == level > Len(pa)

\* mutant: the level is counted from the outermost element
AncestorIndex_FromOutermost(level, pa) == level

\* parent_attrs.len() - level, as a position counted from 1
AncestorIndex(level, pa) == Len(pa) - level + 1

\* mutant: the filters are applied to a value found, not to the default
WithDefaultText_RawDefault(attributes, attr, default, filters) ==
    IF AttrMatches(attributes, attr) # {}
    THEN FiltersApply(filters, attributes[FirstMatch(attributes, attr)].value).str
    ELSE default

\* the text a with-default action writes for this attribute list
WithDefaultText(attributes, attr, default, filters) ==
    FiltersApply(filters, attr_or_default(attributes, attr, default)).str

\* mutant: a required attribute that is absent is written as the empty text
RequiredText_EmptyOnMissing(attributes, attr, tag, filters) ==
    LET r == get_attr(attributes, attr, tag)
    IN  IF r.kind = "ok" THEN Ok(FiltersApply(filters, r.text).str) ELSE Ok(<<>>)

\* the text a required action writes for this attribute list, or its error
RequiredText(attributes, attr, tag, filters) ==
    LET r == get_attr(attributes, attr, tag)
    IN  IF r.kind = "ok" THEN Ok(FiltersApply(filters, r.text).str) ELSE r

\* one action of a StartTag instruction, for the element that opens
StartElementAction(action, attributes, tag, pa, pt) ==
    CASE action.type = "RawString" -> Ok(action.s)
      [] action.type = "Attribute" ->
            RequiredText(attributes, action.attr, tag, action.filters)
      [] action.type = "AttributeWithDefault" ->
            Ok(WithDefaultText(attributes, action.attr, action.default, action.filters))
      [] action.type = "ParentAttribute" ->
            IF LevelExceedsDepth(action.level, pa) THEN Err(<<>>)
            ELSE IF AncestorIndex(action.level, pa) \notin 1..Len(pa)
                 THEN Panic(<<"index out of bounds">>)
            ELSE RequiredText(pa[AncestorIndex(action.level, pa)], action.attr,
                              pt[AncestorIndex(action.level, pa)], action.filters)
      [] action.type = "ParentAttributeWithDefault" ->
            IF LevelExceedsDepth(action.level, pa) THEN Err(<<>>)
            ELSE IF AncestorIndex(action.level, pa) \notin 1..Len(pa)
                 THEN Panic(<<"index out of bounds">>)
            ELSE Ok(WithDefaultText(pa[AncestorIndex(action.level, pa)], action.attr,
                                    action.default, action.filters))

\* one action of a StartDocument, EndTag or EndDocument instruction
LiteralOnlyAction(action) ==
    IF action.type = "RawString" THEN Ok(action.s)
    ELSE Panic(<<"not yet implemented">>)

\* mutant: the tag name of the instruction is not compared with the event's
InstructionMatches_AnyTag(instruction, ev) ==
    CASE ev.type = "StartDocument" -> instruction.kind = "StartDocument"
      [] ev.type = "StartElement" -> instruction.kind = "StartTag"
      [] ev.type = "EndElement" -> instruction.kind = "EndTag"
      [] ev.type = "EndDocument" -> instruction.kind = "EndDocument"
      [] OTHER -> FALSE

\* mutant: the document instructions run at both ends of the document
InstructionMatches_BothEnds(instruction, ev) ==
    CASE ev.type \in {"StartDocument", "EndDocument"} ->
            instruction.kind \in {"StartDocument", "EndDocument"}
      [] ev.type = "StartElement" ->
            instruction.kind = "StartTag" /\ instruction.tag = ev.name
      [] ev.type = "EndElement" ->
            instruction.kind = "EndTag" /\ instruction.tag = ev.name
      [] OTHER -> FALSE

\* the arm of the match on the instruction: does it run for this event
InstructionMatches(instruction, ev) ==
    CASE ev.type = "StartDocument" -> instruction.kind = "StartDocument"
      [] ev.type = "StartElement" ->
            instruction.kind = "StartTag" /\ instruction.tag = ev.name
      [] ev.type = "EndElement" ->
            instruction.kind = "EndTag" /\ instruction.tag = ev.name
      [] ev.type = "EndDocument" -> instruction.kind = "EndDocument"
      [] OTHER -> FALSE

\* the match on the action, in the handler of this event
ExecAction(action, ev, ps) ==
    IF ev.type = "StartElement"
    THEN StartElementAction(action, ev.attributes, ev.name,
                            ps.parent_attrs, ps.parent_tags)
    ELSE LiteralOnlyAction(action)

\* the record of one executed action: action a of instruction j, on event number n
Executed(n, j, a, r) ==
    [n |-> n, j |-> j, a |-> a, kind |-> r.kind,
     text |-> IF r.kind = "ok" THEN r.text ELSE <<>>]

RECURSIVE RunActions(_, _, _, _, _, _)
\* `for action in actions` of instruction j, from action a on; n numbers the event
RunActions(ps, actions, ev, n, j, a) ==
    IF a > Len(actions) THEN ps
    ELSE LET r == ExecAction(actions[a], ev, ps)
         IN  IF r.kind = "ok"
             THEN RunActions([ps EXCEPT !.output = @ \o r.text,
                                        !.trace = Append(@, Executed(n, j, a, r))],
                             actions, ev, n, j, a + 1)
             ELSE [ps EXCEPT !.status = r.kind, !.error = r.error,
                             !.trace = Append(@, Executed(n, j, a, r))]

\* mutant: the instructions visited last to first
InstructionOrder_Reversed(instrs) == [j \in 1..Len(instrs) |-> Len(instrs) - j + 1]

\* the instructions in the order the executor visits them
InstructionOrder(instrs) == [j \in 1..Len(instrs) |-> j]

RECURSIVE RunInstructions(_, _, _, _, _)
\* `for instruction in instructions.iter()`, from the k-th visited on
RunInstructions(ps, instrs, ev, n, k) ==
    IF k > Len(instrs) \/ ps.status # "running" THEN ps
    ELSE LET j == InstructionOrder(instrs)[k]
         IN  RunInstructions(
                 IF InstructionMatches(instrs[j], ev)
                 THEN RunActions(ps, instrs[j].actions, ev, n, j, 1)
                 ELSE ps,
                 instrs, ev, n, k + 1)

\* parent_attrs.push(attributes); parent_tags.push(name.local_name)
PushParent(ps, ev) ==
    [ps EXCEPT !.parent_attrs = Append(@, ev.attributes),
               !.parent_tags = Append(@, ev.name)]

\* mutant: the Vec is cleared
Pop_Clear(s) == <<>>

\* Vec::pop, which leaves an empty Vec empty
Pop(s) == IF s = <<>> THEN <<>> ELSE SubSeq(s, 1, Len(s) - 1)

\* mutant: nothing is popped when an element closes
PopParent_Keep(ps) == ps

\* parent_attrs.pop(); parent_tags.pop()
PopParent(ps) ==
    [ps EXCEPT !.parent_attrs = Pop(@), !.parent_tags = Pop(@)]

\* mutant: the document-start event pushes an entry too
AfterInstructions_PushAtDocumentStart(ps, ev, track) ==
    IF ~track THEN ps
    ELSE IF ev.type = "StartElement" THEN PushParent(ps, ev)
    ELSE IF ev.type = "EndElement" THEN PopParent(ps)
    ELSE IF ev.type = "StartDocument"
         THEN [ps EXCEPT !.parent_attrs = Append(@, <<>>),
                         !.parent_tags = Append(@, "")]
    ELSE ps

\* what follows the instruction loop of a handler
AfterInstructions(ps, ev, track) ==
    IF ~track THEN ps
    ELSE IF ev.type = "StartElement" THEN PushParent(ps, ev)
    ELSE IF ev.type = "EndElement" THEN PopParent(ps)
    ELSE ps

\* mutant: an error of the reader is skipped like an ignored event
HandleEvent_SkipsReaderError(instrs, track, ps, ev, n) ==
    IF ev.type = "Error" THEN ps
    ELSE IF ev.type = "Other" THEN ps
    ELSE LET r == RunInstructions(ps, instrs, ev, n, 1)
         IN  IF r.status # "running" THEN r ELSE AfterInstructions(r, ev, track)

\* one pass of the event loop: `match wev?`, with the stack kept iff track
HandleEvent(instrs, track, ps, ev, n) ==
    IF ev.type = "Error" THEN [ps EXCEPT !.status = "err", !.error = ev.error]
    ELSE IF ev.type = "Other" THEN ps
    ELSE LET r == RunInstructions(ps, instrs, ev, n, 1)
         IN  IF r.status # "running" THEN r ELSE AfterInstructions(r, ev, track)

-----------------------------------------------------------------------------
(* The inputs of the model: programs and documents *)

\* the default text of the with-default actions; TSVEscape and UnixEscape change it
Dflt == <<"N", TAB>>

\* tests.rs simple_end_1
ProgOpenClose ==
    <<StartTag("a", <<RawString(<<"s">>)>>),
      EndTag("a", <<RawString(<<"e">>)>>)>>

\* tests.rs attribute_with_default1, followed by a required attribute on the same tag
ProgDefault ==
    <<StartTag("a", <<AttributeWithDefault("id", Dflt, <<"TSVEscape">>)>>),
      StartTag("a", <<RawString(<<"x">>), Attribute("id", <<>>), RawString(<<"y">>)>>),
      EndTag("a", <<RawString(<<NL>>)>>)>>

\* tests.rs attribute_with_parent_value1
ProgParent ==
    <<StartTag("b", <<Attribute("id", <<"UnixEscape">>), RawString(<<".">>),
                      ParentAttribute(1, "id", <<>>)>>),
      EndTag("b", <<RawString(<<NL>>)>>)>>

\* tests.rs attribute_with_parent_value2, with a filter on the default
ProgParentDefault ==
    <<StartTag("b", <<RawString(<<"x">>),
                      ParentAttributeWithDefault(1, "id", Dflt, <<"TSVEscape">>),
                      RawString(<<"y">>)>>),
      StartTag("a", <<AttributeWithDefault("id", Dflt, <<"UnixEscape">>)>>)>>

\* ancestors at level 2, required and with default
ProgGrandparent ==
    <<StartTag("a", <<RawString(<<"g">>)>>),
      StartTag("b", <<ParentAttributeWithDefault(2, "id", Dflt, <<>>),
                      ParentAttribute(2, "id", <<"TSVEscape">>)>>)>>

\* tests.rs start_doc
ProgDocument ==
    <<StartDocumentInstr(<<RawString(<<"S">>)>>),
      StartTag("a", <<RawString(<<"a">>)>>),
      EndDocumentInstr(<<RawString(<<"E">>)>>),
      EndTag("b", <<>>),
      StartDocumentInstr(<<RawString(<<"T">>)>>)>>

\* `-e a -o e -v id -E -V id N`: attribute actions where no element is at hand
ProgEndValue ==
    <<EndTag("a", <<RawString(<<"e">>), Attribute("id", <<>>)>>),
      EndDocumentInstr(<<AttributeWithDefault("id", Dflt, <<>>)>>)>>

\* `-S -v ../id`
ProgStartValue ==
    <<StartDocumentInstr(<<ParentAttribute(1, "id", <<>>)>>)>>

\* the programs process() is run on
Programs ==
    {ProgOpenClose, ProgDefault, ProgParent, ProgParentDefault, ProgGrandparent,
     ProgDocument, ProgEndValue, ProgStartValue}

StartDocumentEvent == [type |-> "StartDocument"]
StartElementEvent(name, attributes) ==
    [type |-> "StartElement", name |-> name, attributes |-> attributes]
EndElementEvent(name) == [type |-> "EndElement", name |-> name]
EndDocumentEvent == [type |-> "EndDocument"]
\* Characters, Comment, ProcessingInstruction, CData, Whitespace
OtherEvent == [type |-> "Other"]
\* the Err item of a reader that met malformed markup
ErrorEvent == [type |-> "Error", error |-> <<"xml error">>]

\* the elements of the documents: <a>, <a id="1">, <b> and
\* <b k="3" p:id="2&#9;" q:id="4"> (two attributes of local name id)
Elements ==
    {StartElementEvent("a", <<>>),
     StartElementEvent("a", <<OwnedAttribute("id", <<"1">>)>>),
     StartElementEvent("b", <<>>),
     StartElementEvent("b", <<OwnedAttribute("k", <<"3">>),
                              OwnedAttribute("id", <<"2", TAB>>),
                              OwnedAttribute("id", <<"4">>)>>)}

\* the number of tag-open events pulled so far
NumOpened == Cardinality({i \in 1..Len(events) : events[i].type = "StartElement"})

-----------------------------------------------------------------------------
(* The state machine *)

\* the executor's own state, as one record
ProcessState ==
    [output |-> output, trace |-> trace, status |-> status, error |-> error,
     parent_attrs |-> parent_attrs, parent_tags |-> parent_tags]

\* process() up to the event loop
Init ==
    /\ instructions \in Programs
    /\ reader = [phase |-> "start", open |-> <<>>, seen_root |-> FALSE]
    /\ wev = [type |-> "None"]
    /\ events = <<>>
    /\ parent_attrs = <<>>
    /\ parent_tags = <<>>
    /\ output = <<>>
    /\ trace = <<>>
    /\ status = "running"
    /\ error = <<>>
    /\ FilterIdle
    /\ CompileIdle

\* one pass of `for wev in reader` on the item ev
Step(ev) ==
    \E r \in {HandleEvent(instructions, has_parent_attributes(instructions),
                         ProcessState, ev, Len(events) + 1)} :
        /\ wev' = ev
        /\ events' = IF ev.type = "Other" THEN events ELSE Append(events, ev)
        /\ output' = r.output
        /\ trace' = r.trace
        /\ status' = r.status
        /\ error' = r.error
        /\ parent_attrs' = r.parent_attrs
        /\ parent_tags' = r.parent_tags
        /\ UNCHANGED <<instructions, filterVars, compileVars>>

\* the reader yields StartDocument
OnStartDocument ==
    /\ status = "running"
    /\ reader.phase = "start"
    /\ reader' = [reader EXCEPT !.phase = "content"]
    /\ Step(StartDocumentEvent)

\* the reader yields StartElement
OnStartElement ==
    /\ status = "running"
    /\ reader.phase = "content"
    /\ Len(reader.open) < MaxDepth
    /\ NumOpened < MaxElems
    /\ \E ev \in Elements :
          /\ reader' = [reader EXCEPT !.open = Append(@, ev.name), !.seen_root = TRUE]
          /\ Step(ev)

\* the reader yields EndElement, of the innermost open element
OnEndElement ==
    /\ status = "running"
    /\ reader.phase = "content"
    /\ reader.open # <<>>
    /\ reader' = [reader EXCEPT !.open = SubSeq(@, 1, Len(@) - 1)]
    /\ Step(EndElementEvent(reader.open[Len(reader.open)]))

\* the reader yields EndDocument
OnEndDocument ==
    /\ status = "running"
    /\ reader.phase = "content"
    /\ reader.open = <<>>
    /\ reader.seen_root
    /\ reader' = [reader EXCEPT !.phase = "end"]
    /\ Step(EndDocumentEvent)

\* the reader yields an event the executor ignores
OnOtherEvent ==
    /\ status = "running"
    /\ reader.phase = "content"
    /\ UNCHANGED reader
    /\ Step(OtherEvent)

\* the reader yields an error: `wev?` returns it
OnReaderError ==
    /\ status = "running"
    /\ reader.phase # "end"
    /\ reader' = [reader EXCEPT !.phase = "end"]
    /\ Step(ErrorEvent)

\* the reader is exhausted: the loop ends and process() returns Ok(())
ReturnOk ==
    /\ status = "running"
    /\ reader.phase = "end"
    /\ status' = "ok"
    /\ UNCHANGED <<instructions, reader, wev, events, parent_attrs, parent_tags,
                   output, trace, error, filterVars, compileVars>>

Next ==
    \/ OnStartDocument
    \/ OnStartElement
    \/ OnEndElement
    \/ OnEndDocument
    \/ OnOtherEvent
    \/ OnReaderError
    \/ ReturnOk

Spec == Init /\ [][Next]_vars

-----------------------------------------------------------------------------
(* What the properties below speak of: the document as it was read *)

\* process() has not failed
Succeeding == status \in {"running", "ok"}

\* the number of events handled to their end
NumHandled == IF Succeeding THEN Len(events) ELSE Len(events) - 1

RECURSIVE OpenPathOf(_)
\* the tag-open events of the elements still open after these events, outermost first
OpenPathOf(evs) ==
    IF evs = <<>> THEN <<>>
    ELSE LET before == OpenPathOf(SubSeq(evs, 1, Len(evs) - 1))
             e == evs[Len(evs)]
         IN  IF e.type = "StartElement" THEN Append(before, e)
             ELSE IF e.type = "EndElement" /\ before # <<>>
                  THEN SubSeq(before, 1, Len(before) - 1)
             ELSE before

\* the elements open when event number i arrives: its ancestors, if it opens an element
LivePath(i) == OpenPathOf(SubSeq(events, 1, i - 1))

\* the element has an attribute of that local name
Present(attributes, attr) ==
    \E i \in 1..Len(attributes) : attributes[i].local_name = attr

\* the value of the element's first attribute of that local name
ValueOf(attributes, attr) ==
    IF Present(attributes, attr)
    THEN attributes[CHOOSE i \in 1..Len(attributes) :
                        /\ attributes[i].local_name = attr
                        /\ \A k \in 1..(i - 1) : attributes[k].local_name # attr].value
    ELSE <<"(no such attribute)">>

\* the L-th enclosing element of a path, counted from the innermost
Enclosing(path, level) ==
    IF level \in 1..Len(path) THEN path[Len(path) - level + 1].attributes
    ELSE <<>>

\* the text of a filter chain applied to a text
Chain(filters, s) == FiltersApply(filters, s).str

\* the instruction is one for this event
Fires(instruction, ev) ==
    \/ instruction.kind = "StartDocument" /\ ev.type = "StartDocument"
    \/ instruction.kind = "EndDocument" /\ ev.type = "EndDocument"
    \/ /\ instruction.kind = "StartTag"
       /\ ev.type = "StartElement"
       /\ ev.name = instruction.tag
    \/ /\ instruction.kind = "EndTag"
       /\ ev.type = "EndElement"
       /\ ev.name = instruction.tag

\* what an action that succeeds emits on an event whose open ancestors are path
EmittedText(action, ev, path) ==
    CASE action.type = "RawString" -> action.s
      [] action.type = "Attribute" ->
            Chain(action.filters, ValueOf(ev.attributes, action.attr))
      [] action.type = "AttributeWithDefault" ->
            Chain(action.filters,
                  IF Present(ev.attributes, action.attr)
                  THEN ValueOf(ev.attributes, action.attr) ELSE action.default)
      [] action.type = "ParentAttribute" ->
            Chain(action.filters, ValueOf(Enclosing(path, action.level), action.attr))
      [] action.type = "ParentAttributeWithDefault" ->
            Chain(action.filters,
                  IF Present(Enclosing(path, action.level), action.attr)
                  THEN ValueOf(Enclosing(path, action.level), action.attr)
                  ELSE action.default)

\* what instruction j emits on event number i
InstructionText(i, j) ==
    IF Fires(instructions[j], events[i])
    THEN Flatten([a \in 1..Len(instructions[j].actions) |->
                    EmittedText(instructions[j].actions[a], events[i], LivePath(i))])
    ELSE <<>>

\* what the program emits on event number i
EventText(i) ==
    Flatten([j \in 1..Len(instructions) |-> InstructionText(i, j)])

\* how often action a of instruction j was executed on event number i
TimesExecuted(i, j, a) ==
    Cardinality({k \in 1..Len(trace) :
                    trace[k].n = i /\ trace[k].j = j /\ trace[k].a = a})

-----------------------------------------------------------------------------
(* Properties of the executor *)

\* C1: while process() has not failed, the output is the concatenation, over the
\* events in stream order, over the instructions matching the event in
\* declaration order, over their actions in declared order, of the text each
\* action emits.
C1_OutputInEventOrder ==
    Succeeding => output = Flatten([i \in 1..Len(events) |-> EventText(i)])

\* C1 witness: <a><a></a></a> under open/close rules gave start start end end
C1_Witness ==
    /\ instructions = ProgOpenClose
    /\ status = "ok"
    /\ [i \in 1..Len(events) |-> events[i].type]
         = <<"StartDocument", "StartElement", "StartElement", "EndElement",
             "EndElement", "EndDocument">>
    /\ events[2].name = "a" /\ events[3].name = "a"
    /\ output = <<"s", "s", "e", "e">>

\* the record of the k-th executed action, with its action and its event
ActionOf(k) == instructions[trace[k].j].actions[trace[k].a]
EventOf(k) == events[trace[k].n]
PathOf(k) == LivePath(trace[k].n)

\* the text is what a lookup of the action's attribute on these attributes gives:
\* the filtered value of an attribute of that name, or else the filtered default
LookedUpOn(text, attributes, action) ==
    IF Present(attributes, action.attr)
    THEN \E m \in 1..Len(attributes) :
            /\ attributes[m].local_name = action.attr
            /\ text = Chain(action.filters, attributes[m].value)
    ELSE /\ action.type \in {"AttributeWithDefault", "ParentAttributeWithDefault"}
         /\ text = Chain(action.filters, action.default)

\* everything the program emits before action a of instruction j on event number n
PrefixText(n, j, a) ==
    Flatten([i \in 1..(n - 1) |-> EventText(i)])
        \o Flatten([jj \in 1..(j - 1) |-> InstructionText(n, jj)])
        \o Flatten([aa \in 1..(a - 1) |->
                      EmittedText(instructions[j].actions[aa], events[n], LivePath(n))])

\* the k-th executed action failed, and process() with it, leaving only what was
\* emitted before it
FailedAt(k) ==
    /\ trace[k].kind = "err"
    /\ trace[k].text = <<>>
    /\ k = Len(trace)
    /\ status = "err"
    /\ output = PrefixText(trace[k].n, trace[k].j, trace[k].a)

\* C2: the actions of a tag-open (tag-close) instruction for tag T are executed
\* exactly once on every tag-open (tag-close) event named T, nested or not, and
\* never on another event.
C2_TagInstructionOncePerEvent ==
    \A i \in 1..Len(events), j \in 1..Len(instructions) :
        instructions[j].kind \in {"StartTag", "EndTag"} =>
            \A a \in 1..Len(instructions[j].actions) :
                /\ ~Fires(instructions[j], events[i]) => TimesExecuted(i, j, a) = 0
                /\ TimesExecuted(i, j, a) <= 1
                /\ (Fires(instructions[j], events[i]) /\ i <= NumHandled)
                      => TimesExecuted(i, j, a) = 1

\* C2 witness: a tag-open instruction ran on an element nested in one of the same
\* name, and an element of another name was read too
C2_Witness ==
    \E i \in 1..NumHandled, j \in 1..Len(instructions) :
        /\ instructions[j].kind = "StartTag"
        /\ instructions[j].actions # <<>>
        /\ Fires(instructions[j], events[i])
        /\ \E m \in 1..Len(LivePath(i)) : LivePath(i)[m].name = instructions[j].tag
        /\ TimesExecuted(i, j, 1) = 1
        /\ \E i2 \in 1..NumHandled :
              events[i2].type = "StartElement" /\ events[i2].name # instructions[j].tag

\* C3: a direct attribute-with-default action emits the (filtered) value of the
\* element's attribute of that name when there is one and the (filtered) default
\* when there is none, and never fails.
C3_DirectDefault ==
    \A k \in 1..Len(trace) :
        ActionOf(k).type = "AttributeWithDefault" /\ EventOf(k).type = "StartElement" =>
            /\ trace[k].kind = "ok"
            /\ LookedUpOn(trace[k].text, EventOf(k).attributes, ActionOf(k))

\* C3 witness: one run emitted a value for one element and the default for another
C3_Witness ==
    \E k1, k2 \in 1..Len(trace) :
        /\ ActionOf(k1).type = "AttributeWithDefault"
        /\ ActionOf(k2).type = "AttributeWithDefault"
        /\ EventOf(k1).type = "StartElement" /\ EventOf(k2).type = "StartElement"
        /\ Present(EventOf(k1).attributes, ActionOf(k1).attr)
        /\ ~Present(EventOf(k2).attributes, ActionOf(k2).attr)
        /\ trace[k1].text # trace[k2].text

\* the attributes a with-default action looks at: the element's own, or an ancestor's
LookedAt(k) ==
    IF ActionOf(k).type = "AttributeWithDefault" THEN EventOf(k).attributes
    ELSE Enclosing(PathOf(k), ActionOf(k).level)

\* C4: when a with-default action, direct or ancestor, finds the attribute absent,
\* what it writes is the filter chain applied to the default.
C4_FiltersOnDefault ==
    \A k \in 1..Len(trace) :
        /\ ActionOf(k).type \in {"AttributeWithDefault", "ParentAttributeWithDefault"}
        /\ EventOf(k).type = "StartElement"
        /\ trace[k].kind = "ok"
        /\ ~Present(LookedAt(k), ActionOf(k).attr)
        => trace[k].text = Chain(ActionOf(k).filters, ActionOf(k).default)

\* C4 witness: a direct and an ancestor action each wrote a default that its
\* filters had changed
C4_Witness ==
    \E k1, k2 \in 1..Len(trace) :
        /\ ActionOf(k1).type = "AttributeWithDefault"
        /\ ActionOf(k2).type = "ParentAttributeWithDefault"
        /\ EventOf(k1).type = "StartElement"
        /\ \A k \in {k1, k2} :
              /\ trace[k].kind = "ok"
              /\ ~Present(LookedAt(k), ActionOf(k).attr)
              /\ trace[k].text # ActionOf(k).default
              /\ ActionOf(k).filters # <<>>

\* a required action, direct or ancestor, whose element has no such attribute
MissingRequired(k) ==
    /\ EventOf(k).type = "StartElement"
    /\ \/ /\ ActionOf(k).type = "Attribute"
          /\ ~Present(EventOf(k).attributes, ActionOf(k).attr)
       \/ /\ ActionOf(k).type = "ParentAttribute"
          /\ ActionOf(k).level \in 1..Len(PathOf(k))
          /\ ~Present(Enclosing(PathOf(k), ActionOf(k).level), ActionOf(k).attr)

\* C5: a required attribute action that finds no attribute of its name makes
\* process() return an error; nothing is written at or after it, and the output
\* is exactly what was written before it.
C5_MissingRequiredFails ==
    /\ \A k \in 1..Len(trace) : MissingRequired(k) => FailedAt(k) /\ error # <<>>
    /\ status = "err" => ~ENABLED Next

\* C5 witness: a required attribute was missing after earlier events and actions
\* had written output
C5_Witness ==
    /\ trace # <<>>
    /\ MissingRequired(Len(trace))
    /\ ActionOf(Len(trace)).type = "Attribute"
    /\ trace[Len(trace)].a > 1
    /\ trace[Len(trace)].n > 2
    /\ output # <<>>
    /\ status = "err"

\* C6: an ancestor-attribute action of level L that runs while the element E
\* opens, E having at least L open ancestors, looks its attribute up on the L-th
\* enclosing element of E counted from the innermost: what it writes is the
\* (filtered) value found there, or the default of the with-default variant, and
\* the required variant fails exactly when that element has no such attribute.
C6_AncestorByLevel ==
    \A k \in 1..Len(trace) :
        /\ is_parent_attr(ActionOf(k))
        /\ EventOf(k).type = "StartElement"
        /\ ActionOf(k).level \in 1..Len(PathOf(k))
        => LET ancestor == PathOf(k)[Len(PathOf(k)) - ActionOf(k).level + 1].attributes
           IN  IF trace[k].kind = "ok"
               THEN LookedUpOn(trace[k].text, ancestor, ActionOf(k))
               ELSE /\ ActionOf(k).type = "ParentAttribute"
                    /\ ~Present(ancestor, ActionOf(k).attr)
                    /\ trace[k].kind = "err"

\* C6 witness: a level-2 action wrote the grandparent's value while the parent
\* had no such value and the element itself carried another one
C6_Witness ==
    \E k \in 1..Len(trace) :
        /\ ActionOf(k).type = "ParentAttribute"
        /\ ActionOf(k).level = 2
        /\ Len(PathOf(k)) = 2
        /\ trace[k].kind = "ok"
        /\ trace[k].text = Chain(ActionOf(k).filters, ValueOf(PathOf(k)[1].attributes, "id"))
        /\ ValueOf(PathOf(k)[2].attributes, "id") # ValueOf(PathOf(k)[1].attributes, "id")
        /\ Present(EventOf(k).attributes, "id")
        /\ ValueOf(EventOf(k).attributes, "id") # ValueOf(PathOf(k)[1].attributes, "id")

\* C7: an ancestor-attribute action whose level exceeds the number of open
\* ancestors fails at once, required or with default, whatever the attributes:
\* it writes nothing, the default is not written, and process() returns an error.
C7_LevelBeyondDepthFails ==
    \A k \in 1..Len(trace) :
        /\ is_parent_attr(ActionOf(k))
        /\ EventOf(k).type = "StartElement"
        /\ ActionOf(k).level > Len(PathOf(k))
        => FailedAt(k)

\* C7 witness: a with-default action of level 2 failed under a single open
\* ancestor that carries the attribute, after output had been written
C7_Witness ==
    /\ trace # <<>>
    /\ status = "err"
    /\ LET k == Len(trace)
       IN  /\ ActionOf(k).type = "ParentAttributeWithDefault"
           /\ ActionOf(k).level = 2
           /\ Len(PathOf(k)) = 1
           /\ Present(PathOf(k)[1].attributes, ActionOf(k).attr)
           /\ trace[k].kind = "err"
           /\ output # <<>>

\* C8: an ancestor-attribute-with-default action whose ancestor at level L is open
\* but lacks the attribute writes the (filtered) default, whatever elements were
\* open and closed before.
C8_DefaultFromLivePath ==
    \A k \in 1..Len(trace) :
        /\ ActionOf(k).type = "ParentAttributeWithDefault"
        /\ EventOf(k).type = "StartElement"
        /\ ActionOf(k).level \in 1..Len(PathOf(k))
        /\ ~Present(Enclosing(PathOf(k), ActionOf(k).level), ActionOf(k).attr)
        => /\ trace[k].kind = "ok"
           /\ trace[k].text = Chain(ActionOf(k).filters, ActionOf(k).default)

\* C8 witness: the default was written although an element that was opened and
\* closed earlier, at the depth of the ancestor, carried the attribute
C8_Witness ==
    \E k \in 1..Len(trace) :
        /\ ActionOf(k).type = "ParentAttributeWithDefault"
        /\ ActionOf(k).level \in 1..Len(PathOf(k))
        /\ ~Present(Enclosing(PathOf(k), ActionOf(k).level), ActionOf(k).attr)
        /\ trace[k].kind = "ok"
        /\ \E i \in 1..(trace[k].n - 1) :
              /\ events[i].type = "StartElement"
              /\ Present(events[i].attributes, ActionOf(k).attr)
              /\ Len(LivePath(i)) = Len(PathOf(k)) - ActionOf(k).level
              /\ \A m \in 1..Len(PathOf(k)) : PathOf(k)[m] # events[i]

\* C9: when the program has an ancestor-attribute action, after every event
\* handled the ancestor context has one entry per open element, so it is empty
\* whenever every element has been closed.
C9_ContextSizeIsDepth ==
    has_parent_attributes(instructions) /\ Succeeding =>
        /\ Len(parent_attrs) = Len(OpenPathOf(events))
        /\ Len(parent_tags) = Len(OpenPathOf(events))
        /\ Len(parent_attrs) = Len(reader.open)

\* C9 witness: nested elements were pushed and popped and the context is empty
\* again at the end of the document
C9_Witness ==
    /\ has_parent_attributes(instructions)
    /\ status = "ok"
    /\ parent_attrs = <<>>
    /\ \E i \in 1..Len(events) : Len(LivePath(i)) = 2 /\ events[i].type = "StartElement"

RECURSIVE RunAll(_, _, _)
\* the executor run on these events with the ancestor context kept iff track
RunAll(instrs, track, evs) ==
    IF evs = <<>>
    THEN [output |-> <<>>, trace |-> <<>>, status |-> "running", error |-> <<>>,
          parent_attrs |-> <<>>, parent_tags |-> <<>>]
    ELSE LET ps == RunAll(instrs, track, SubSeq(evs, 1, Len(evs) - 1))
         IN  IF ps.status # "running" THEN ps
             ELSE HandleEvent(instrs, track, ps, evs[Len(evs)], Len(evs))

\* success or the kind of failure
Outcome(st) == IF st \in {"running", "ok"} THEN "success" ELSE st

\* C10: for a program without ancestor-attribute action, an executor that always
\* keeps the ancestor context writes the same output and ends the same way as
\* process(), which skips it.
C10_TrackingUnobservable ==
    ~has_parent_attributes(instructions) =>
        LET full == RunAll(instructions, TRUE, events)
        IN  /\ full.output = output
            /\ Outcome(full.status) = Outcome(status)
            /\ full.error = error
            /\ full.trace = trace

\* C10 witness: such a program wrote output on nested elements, where the
\* always-tracking executor holds a context of two and process() holds none
C10_Witness ==
    /\ ~has_parent_attributes(instructions)
    /\ output # <<>>
    /\ parent_attrs = <<>>
    /\ Len(RunAll(instructions, TRUE, events).parent_attrs) = 2

\* no instruction of the program holds an ancestor-attribute action
NoAncestorAction(instrs) ==
    \A j \in 1..Len(instrs) : \A a \in 1..Len(instrs[j].actions) :
        instrs[j].actions[a].type \notin {"ParentAttribute", "ParentAttributeWithDefault"}

\* C11: when no instruction of the program holds an ancestor-attribute action, the
\* ancestor context is empty in every state of process().
C11_NoContextWithoutAncestorAction ==
    NoAncestorAction(instructions) => parent_attrs = <<>> /\ parent_tags = <<>>

\* C11 witness: such a program, with attribute actions, has read as many elements
\* as the bounds allow, all of them still open
C11_Witness ==
    /\ NoAncestorAction(instructions)
    /\ \E j \in 1..Len(instructions) : \E a \in 1..Len(instructions[j].actions) :
          instructions[j].actions[a].type # "RawString"
    /\ Len(reader.open) = MaxDepth
    /\ NumOpened = MaxElems
    /\ status = "running"
    /\ parent_attrs = <<>>

-----------------------------------------------------------------------------
(* The filters on their own: Filters::apply and TextFilter::apply *)

\* process() is not running
ProcessIdle ==
    /\ instructions = <<>>
    /\ reader = [phase |-> "end", open |-> <<>>, seen_root |-> FALSE]
    /\ wev = [type |-> "None"]
    /\ events = <<>>
    /\ parent_attrs = <<>>
    /\ parent_tags = <<>>
    /\ output = <<>>
    /\ trace = <<>>
    /\ status = "idle"
    /\ error = <<>>

\* enum TextFilter
TextFilters == {"Nothing", "UnixEscape", "TSVEscape"}

\* the characters of the texts given to the filters
FilterChars == {"x", " ", TAB, NL, CR, BSL, QUOT}

\* the sequences over S of length at most n
SeqsUpTo(S, n) == UNION {[1..m -> S] : m \in 0..n}

\* a filter chain and a borrowed text
FilterInit ==
    /\ f_chain \in SeqsUpTo(TextFilters, MaxChainLen)
    /\ f_text \in SeqsUpTo(FilterChars, MaxTextLen)
    /\ f_out = [fn |-> "none"]
    /\ ProcessIdle
    /\ CompileIdle

\* a call of Filters::apply
CallFiltersApply ==
    /\ f_out.fn = "none"
    /\ f_out' = [fn |-> "Filters::apply", result |-> FiltersApply(f_chain, f_text)]
    /\ UNCHANGED <<f_chain, f_text, processVars, compileVars>>

\* a call of TextFilter::apply, of the only filter of the chain, on the borrowed text
CallTextFilterApply ==
    /\ f_out.fn = "none"
    /\ Len(f_chain) = 1
    /\ f_out' = [fn |-> "TextFilter::apply",
                 result |-> TextFilterApply(f_chain[1], Borrowed(f_text))]
    /\ UNCHANGED <<f_chain, f_text, processVars, compileVars>>

FilterNext ==
    \/ CallFiltersApply
    \/ CallTextFilterApply

SpecFilter == FilterInit /\ [][FilterNext]_vars

\* the text one filter makes of a text
FilterText(f, s) == TextFilterApply(f, Borrowed(s)).str

RECURSIVE Composed(_, _)
\* fn(...f2(f1(s))...) for the chain <<f1, ..., fn>>
Composed(chain, s) ==
    IF chain = <<>> THEN s
    ELSE FilterText(chain[Len(chain)], Composed(SubSeq(chain, 1, Len(chain) - 1), s))

\* C12: Filters::apply on the chain <<f1, ..., fn>> returns fn(...f2(f1(s))...), the
\* filters being applied left to right; the empty chain, and a chain of identity
\* filters only, return s itself.
C12_ChainLeftToRight ==
    f_out.fn = "Filters::apply" =>
        /\ f_out.result.str = Composed(f_chain, f_text)
        /\ (\A k \in 1..Len(f_chain) : f_chain[k] = "Nothing")
              => f_out.result = Borrowed(f_text)

\* C12 witness: the chain [TSV, UNIX] was applied to a text on which [UNIX, TSV]
\* gives another result
C12_Witness ==
    /\ f_out.fn = "Filters::apply"
    /\ f_chain = <<"TSVEscape", "UnixEscape">>
    /\ f_out.result.str # Composed(<<"UnixEscape", "TSVEscape">>, f_text)

\* the escaped form of a character of the tabular filter
TSVEscaped(c) ==
    CASE c = TAB -> <<BSL, "t">>
      [] c = NL -> <<BSL, "n">>
      [] c = CR -> <<BSL, "r">>
      [] c = BSL -> <<BSL, BSL>>
      [] OTHER -> <<c>>

\* C13: the tabular escape filter replaces every tab, newline, carriage return and
\* backslash of its input by its backslash-escaped form and leaves every other
\* character as it is.
C13_TSVEscapesAllFour ==
    f_out.fn = "TextFilter::apply" /\ f_chain = <<"TSVEscape">> =>
        f_out.result.str = Flatten([i \in 1..Len(f_text) |-> TSVEscaped(f_text[i])])

\* the characters an escape filter escapes, by the description of the filters
Escapes(f) ==
    CASE f = "UnixEscape" -> {TAB, NL, CR, BSL, QUOT, APOS}
      [] f = "TSVEscape" -> {TAB, NL, CR, BSL}
      [] OTHER -> {}

\* C14: an escape filter returns an input without a character it escapes as the
\* borrowed input itself, and returns newly allocated text only when the result
\* differs from the input; the identity filter always returns its input itself.
C14_NoCopyUnlessChanged ==
    f_out.fn = "TextFilter::apply" =>
        /\ (\A i \in 1..Len(f_text) : f_text[i] \notin Escapes(f_chain[1]))
              => f_out.result = Borrowed(f_text)
        /\ f_out.result.owned => f_out.result.str # f_text

-----------------------------------------------------------------------------
(* The compiler: clap_app, clap_app_to_ordered_matches, parse_to_instructions *)

\* the texts of the command lines
TextA == <<"a">>
TextB == <<"b">>
TextX == <<"x">>
TextD == <<"d">>
TextE == <<"e">>
NameId == <<"i", "d">>
NameDotted == <<"k", ".", "/">>
NameNothing == <<"n", "o", "t", "h", "i", "n", "g">>
NameNone == <<"n", "o", "n", "e">>
NameUnix == <<"u", "n", "i", "x">>
NameTsv == <<"t", "s", "v">>
NameBad == <<"b", "a", "d">>
NameEmpty == <<>>
ParentMarker == <<".", ".", "/">>
CurrentMarker == <<".", "/">>
Bang == "!"

\* a successful Result carrying a value
OkValue(v) == [kind |-> "ok", value |-> v]

\* TextFilter::from_str
\* mutant: an unknown name is read as the identity filter
from_str_Lenient(x) ==
    CASE x \in {NameNothing, NameNone} -> OkValue("Nothing")
      [] x = NameUnix -> OkValue("UnixEscape")
      [] x = NameTsv -> OkValue("TSVEscape")
      [] OTHER -> OkValue("Nothing")

from_str(x) ==
    CASE x \in {NameNothing, NameNone} -> OkValue("Nothing")
      [] x = NameUnix -> OkValue("UnixEscape")
      [] x = NameTsv -> OkValue("TSVEscape")
      [] OTHER -> Err(<<"Unknown filter ">> \o x)

\* str::contains(c)
Contains(str, c) == \E i \in 1..Len(str) : str[i] = c

\* str::starts_with and str::strip_prefix
StartsWith(str, prefix) ==
    Len(str) >= Len(prefix) /\ SubSeq(str, 1, Len(prefix)) = prefix
StripPrefix(str, prefix) == SubSeq(str, Len(prefix) + 1, Len(str))

RECURSIVE Split(_, _)
\* str::split(c): the pieces between the occurrences of c, empty ones included
Split(str, c) ==
    IF ~Contains(str, c) THEN <<str>>
    ELSE LET i == CHOOSE i \in 1..Len(str) :
                      str[i] = c /\ \A k \in 1..(i - 1) : str[k] # c
         IN  <<SubSeq(str, 1, i - 1)>> \o Split(SubSeq(str, i + 1, Len(str)), c)

RECURSIVE CollectFilters(_, _, _)
\* splits[1..].iter().map(|s| s.parse()).collect::<Result<_, _>>(): the filters, or
\* the error of the first name that does not parse
CollectFilters(splits, k, acc) ==
    IF k > Len(splits) THEN OkValue(acc)
    ELSE LET f == from_str(splits[k])
         IN  IF f.kind = "err" THEN f
             ELSE CollectFilters(splits, k + 1, Append(acc, f.value))

\* Filters::parse_both
parse_both(str) ==
    IF ~Contains(str, Bang) THEN [kind |-> "ok", attr |-> str, filters |-> <<>>]
    ELSE LET splits == Split(str, Bang)
             filters == CollectFilters(splits, 2, <<>>)
         IN  IF filters.kind = "err" THEN filters
             ELSE [kind |-> "ok", attr |-> splits[1], filters |-> filters.value]

\* clap::Arg of clap_app
Arg(name, flag, takes_value, number_of_values) ==
    [name |-> name, flag |-> flag, takes_value |-> takes_value,
     number_of_values |-> number_of_values]

\* clap_app: the arguments in the order of their definition (number_of_values 0: not set)
clap_app ==
    <<Arg("startdoc", "-S", FALSE, 0),
      Arg("startelement", "-s", TRUE, 0),
      Arg("endelement", "-e", TRUE, 0),
      Arg("enddoc", "-E", FALSE, 0),
      Arg("raw", "-o", TRUE, 0),
      Arg("value", "-v", TRUE, 0),
      Arg("value_with_default", "-V", TRUE, 2),
      Arg("newline", "--nl", FALSE, 0),
      Arg("tab", "--tab", FALSE, 0)>>

\* a.get_num_vals().unwrap_or_else(|| if takes a value { 1 } else { 0 })
NumVals(a) ==
    IF a.number_of_values # 0 THEN a.number_of_values
    ELSE IF a.takes_value THEN 1 ELSE 0

\* the tokens of a command line: a flag, or a value given to the flag before it
FlagToken(flag) == [kind |-> "flag", s |-> flag]
ValueToken(text) == [kind |-> "value", s |-> text]

\* the argument of clap_app a flag stands for
ArgOfFlag(app, flag) == app[CHOOSE i \in 1..Len(app) : app[i].flag = flag]

RECURSIVE GetMatchesFrom(_, _, _, _)
\* clap::App::get_matches_from: for every argument its number of occurrences, its
\* indices (of the flag when it takes no value, of each value otherwise) and its
\* values, an index being the position of the token on the command line
GetMatchesFrom(app, tokens, i, m) ==
    IF i > Len(tokens) THEN m
    ELSE LET a == ArgOfFlag(app, tokens[i].s)
             n == NumVals(a)
             idx == IF n = 0 THEN <<i>> ELSE [k \in 1..n |-> i + k]
             vals == [k \in 1..n |-> tokens[i + k].s]
         IN  GetMatchesFrom(app, tokens, i + n + 1,
                 [m EXCEPT ![a.name] = [occurrences |-> @.occurrences + 1,
                                        indices |-> @.indices \o idx,
                                        values |-> @.values \o vals]])

get_matches_from(app, tokens) ==
    GetMatchesFrom(app, tokens, 1,
        [name \in {app[i].name : i \in 1..Len(app)} |->
            [occurrences |-> 0, indices |-> <<>>, values |-> <<>>]])

\* slice::chunks(n) of a slice whose length is a multiple of n
Chunks(slice, n) ==
    [c \in 1..(Len(slice) \div n) |-> SubSeq(slice, (c - 1) * n + 1, c * n)]

\* what one argument adds to results: (index, (name, values)) per occurrence
ResultsOf(a, matches) ==
    LET m == matches[a.name]
        num_vals == NumVals(a)
    IN  IF m.occurrences = 0 THEN <<>>
        ELSE IF num_vals = 0
             THEN [k \in 1..Len(m.indices) |->
                      [i |-> m.indices[k], name |-> a.name, values |-> <<>>]]
             ELSE LET indices == Chunks(m.indices, num_vals)
                      values == Chunks(m.values, num_vals)
                  IN  [k \in 1..Len(indices) |->
                          [i |-> indices[k][1], name |-> a.name, values |-> values[k]]]

RECURSIVE InsertByKey(_, _)
\* x put behind the last entry whose key is not greater
InsertByKey(sorted, x) ==
    IF sorted = <<>> THEN <<x>>
    ELSE IF sorted[Len(sorted)].i <= x.i THEN Append(sorted, x)
    ELSE Append(InsertByKey(SubSeq(sorted, 1, Len(sorted) - 1), x), sorted[Len(sorted)])

RECURSIVE SortFrom(_, _, _)
SortFrom(results, k, sorted) ==
    IF k > Len(results) THEN sorted
    ELSE SortFrom(results, k + 1, InsertByKey(sorted, results[k]))

\* mutant: the results stay in the order of the argument definitions
sort_by_key_Unsorted(results) == results

\* results.sort_by_key(|x| x.0), a stable sort
sort_by_key(results) == SortFrom(results, 1, <<>>)

\* clap_app_to_ordered_matches
clap_app_to_ordered_matches(app, tokens) ==
    LET matches == get_matches_from(app, tokens)
        results == Flatten([k \in 1..Len(app) |-> ResultsOf(app[k], matches)])
        ordered == sort_by_key(results)
    IN  [k \in 1..Len(ordered) |->
            [name |-> ordered[k].name, values |-> ordered[k].values]]

\* Option<Instruction>
NoInstruction == [some |-> FALSE]
SomeInstruction(i) == [some |-> TRUE, value |-> i]

\* the loop of parse_to_instructions between two directives
Compiling(instrs, current_instruction) ==
    [kind |-> "compiling", instructions |-> instrs,
     current_instruction |-> current_instruction]

\* mutant: an instruction without actions is not committed
push_previous_SkipEmpty(st) ==
    IF st.current_instruction.some /\ st.current_instruction.value.actions # <<>>
    THEN Append(st.instructions, st.current_instruction.value)
    ELSE st.instructions

\* if let Some(previous) = current_instruction.take() { instructions.push(previous) }
push_previous(st) ==
    IF st.current_instruction.some
    THEN Append(st.instructions, st.current_instruction.value)
    ELSE st.instructions

\* the arms of the scope directives: commit the open instruction and open a new one
OpenScope(st, instruction) ==
    Compiling(push_previous(st), SomeInstruction(instruction))

\* i.actions_mut().push(action)
PushAction(st, action) ==
    [st EXCEPT !.current_instruction.value.actions = Append(@, action)]

\* bail!("Cannot use {flag} before you have done a -s/-e")
CannotUse(flag) == Err(<<"Cannot use ", flag, " before you have done a -s/-e">>)

RawArm(st, value) ==
    IF ~st.current_instruction.some THEN CannotUse("-o")
    ELSE PushAction(st, RawString(value[1]))

NewlineArm(st) ==
    IF ~st.current_instruction.some THEN CannotUse("--nl")
    ELSE PushAction(st, RawString(<<NL>>))

\* mutant: without an open instruction the directive is skipped
TabArm_Skipped(st) ==
    IF ~st.current_instruction.some THEN st
    ELSE PushAction(st, RawString(<<TAB>>))

TabArm(st) ==
    IF ~st.current_instruction.some THEN CannotUse("--tab")
    ELSE PushAction(st, RawString(<<TAB>>))

RECURSIVE StripMarkers_CurrentCounts(_, _)
\* mutant: a "./" marker counts as a level too
StripMarkers_CurrentCounts(attr, level) ==
    IF StartsWith(attr, ParentMarker)
    THEN StripMarkers_CurrentCounts(StripPrefix(attr, ParentMarker), level + 1)
    ELSE IF StartsWith(attr, CurrentMarker)
    THEN StripMarkers_CurrentCounts(StripPrefix(attr, CurrentMarker), level + 1)
    ELSE [level |-> level, attr |-> attr]

RECURSIVE StripMarkers(_, _)
\* the loop that strips the leading "../" and "./" of a specifier
StripMarkers(attr, level) ==
    IF StartsWith(attr, ParentMarker)
    THEN StripMarkers(StripPrefix(attr, ParentMarker), level + 1)
    ELSE IF StartsWith(attr, CurrentMarker)
    THEN StripMarkers(StripPrefix(attr, CurrentMarker), level)
    ELSE [level |-> level, attr |-> attr]

\* mutant: the ancestor action at every level
ValueAction_AlwaysParent(level, attr, filters) == ParentAttribute(level, attr, filters)

\* the action of -v
ValueAction(level, attr, filters) ==
    IF level = 0 THEN Attribute(attr, filters)
    ELSE ParentAttribute(level, attr, filters)

\* mutant: the ancestor action at every level
ValueWithDefaultAction_AlwaysParent(level, attr, default, filters) ==
    ParentAttributeWithDefault(level, attr, default, filters)

\* the action of -V
ValueWithDefaultAction(level, attr, default, filters) ==
    IF level = 0 THEN AttributeWithDefault(attr, default, filters)
    ELSE ParentAttributeWithDefault(level, attr, default, filters)

ValueArm(st, value) ==
    IF ~st.current_instruction.some THEN CannotUse("-v")
    ELSE LET stripped == StripMarkers(value[1], 0)
             parsed == parse_both(stripped.attr)
         IN  IF parsed.kind = "err" THEN parsed
             ELSE PushAction(st, ValueAction(stripped.level, parsed.attr, parsed.filters))

ValueWithDefaultArm(st, value) ==
    IF ~st.current_instruction.some THEN CannotUse("-V")
    ELSE LET stripped == StripMarkers(value[1], 0)
             parsed == parse_both(stripped.attr)
         IN  IF parsed.kind = "err" THEN parsed
             ELSE PushAction(st, ValueWithDefaultAction(stripped.level, parsed.attr,
                                                        value[2], parsed.filters))

\* the match on the name of the directive
Arm(st, name, value) ==
    CASE name = "startdoc" -> OpenScope(st, StartDocumentInstr(<<>>))
      [] name = "startelement" -> OpenScope(st, StartTag(value[1], <<>>))
      [] name = "endelement" -> OpenScope(st, EndTag(value[1], <<>>))
      [] name = "enddoc" -> OpenScope(st, EndDocumentInstr(<<>>))
      [] name = "raw" -> RawArm(st, value)
      [] name = "newline" -> NewlineArm(st)
      [] name = "tab" -> TabArm(st)
      [] name = "value" -> ValueArm(st, value)
      [] name = "value_with_default" -> ValueWithDefaultArm(st, value)
      [] OTHER -> Err(<<"unknown arg: ", name>>)

RECURSIVE CompileFrom(_, _, _)
\* for (name, mut value) in args.into_iter(): the first error ends the function
CompileFrom(directives, k, st) ==
    IF k > Len(directives) THEN st
    ELSE LET r == Arm(st, directives[k].name, directives[k].values)
         IN  IF r.kind = "err" THEN r ELSE CompileFrom(directives, k + 1, r)

\* parse_to_instructions, given the ordered matches
parse_to_instructions(directives) ==
    LET st == CompileFrom(directives, 1, Compiling(<<>>, NoInstruction))
    IN  IF st.kind = "err" THEN st
        ELSE [kind |-> "ok", instructions |-> push_previous(st)]

\* one occurrence of a flag with its values, and the tokens of a line of them
Occurrence(flag, values) == [flag |-> flag, values |-> values]
Tokens(line) ==
    Flatten([k \in 1..Len(line) |->
        <<FlagToken(line[k].flag)>>
            \o [v \in 1..Len(line[k].values) |-> ValueToken(line[k].values[v])]])

\* an attribute specifier: markers, a name, and filter names behind a '!' each
Specifier(markers, name, filter_names) ==
    Flatten(markers) \o name
        \o Flatten([k \in 1..Len(filter_names) |-> <<Bang>> \o filter_names[k]])

Markers == {ParentMarker, CurrentMarker}
AttrNameTexts == {NameId, NameDotted}
FilterNameTexts == {NameNothing, NameNone, NameUnix, NameTsv, NameBad, NameEmpty}

Specifiers ==
    {Specifier(ms, n, fs) : ms \in SeqsUpTo(Markers, MaxPrefixes),
                            n \in AttrNameTexts,
                            fs \in SeqsUpTo(FilterNameTexts, MaxFilterNames)}

\* the flag occurrences of the short command lines
Occurrences ==
    {Occurrence("-S", <<>>), Occurrence("-E", <<>>),
     Occurrence("-s", <<TextA>>), Occurrence("-e", <<TextB>>),
     Occurrence("-o", <<TextX>>), Occurrence("--nl", <<>>), Occurrence("--tab", <<>>),
     Occurrence("-v", <<NameId>>),
     Occurrence("-v", <<Specifier(<<ParentMarker>>, NameId, <<NameTsv>>)>>),
     Occurrence("-v", <<Specifier(<<>>, NameId, <<NameBad>>)>>),
     Occurrence("-V", <<NameId, TextD>>),
     Occurrence("-V", <<Specifier(<<ParentMarker>>, NameId, <<>>), TextE>>)}

\* the command lines: short lines of any occurrences, and a tag-open scope with one
\* attribute directive of any specifier
CommandLines ==
    SeqsUpTo(Occurrences, MaxArgs)
    \cup {<<Occurrence("-s", <<TextA>>), Occurrence("-v", <<sp>>)>> : sp \in Specifiers}
    \cup {<<Occurrence("-s", <<TextA>>), Occurrence("-V", <<sp, TextD>>)>> :
             sp \in Specifiers}

CompileInit ==
    /\ argv \in {Tokens(line) : line \in CommandLines}
    /\ args = <<>>
    /\ compiled = [kind |-> "none"]
    /\ ProcessIdle
    /\ FilterIdle

\* parse_to_instructions(argv)
ParseToInstructions ==
    /\ compiled.kind = "none"
    /\ args' = clap_app_to_ordered_matches(clap_app, argv)
    /\ compiled' = parse_to_instructions(args')
    /\ UNCHANGED <<argv, processVars, filterVars>>

CompileNext == ParseToInstructions

SpecCompile == CompileInit /\ [][CompileNext]_vars

\* the flags that open a scope, and the flags of the actions
ScopeFlags == {"-S", "-s", "-e", "-E"}
ActionFlags == {"-o", "--nl", "--tab", "-v", "-V"}

RECURSIVE DirectivesFrom(_, _, _)
DirectivesFrom(tokens, i, acc) ==
    IF i > Len(tokens) THEN acc
    ELSE IF tokens[i].kind = "flag"
    THEN DirectivesFrom(tokens, i + 1, Append(acc, Occurrence(tokens[i].s, <<>>)))
    ELSE DirectivesFrom(tokens, i + 1,
             [acc EXCEPT ![Len(acc)].values = Append(@, tokens[i].s)])

\* the directives as typed: each flag of the command line with the values behind it
Directives(tokens) == DirectivesFrom(tokens, 1, <<>>)

\* the least element of a set of numbers
Min(S) == CHOOSE x \in S : \A y \in S : x <= y

\* the filter names the compiler recognises, and the filter each stands for
RecognisedNames == {NameNothing, NameNone, NameUnix, NameTsv}
FilterNamed(n) ==
    CASE n \in {NameNothing, NameNone} -> "Nothing"
      [] n = NameUnix -> "UnixEscape"
      [] n = NameTsv -> "TSVEscape"

\* the ancestor level of a compiled attribute action
Level(action) ==
    IF action.type \in {"ParentAttribute", "ParentAttributeWithDefault"}
    THEN action.level ELSE 0

\* the number of "../" among the markers
NumParentMarkers(ms) == Cardinality({k \in 1..Len(ms) : ms[k] = ParentMarker})

\* a scope directive is followed by an attribute directive
AttributeSecond(d) ==
    Len(d) >= 2 /\ d[1].flag \in ScopeFlags /\ d[2].flag \in {"-v", "-V"}

\* C15: a specifier made of leading markers, a name and recognised filter names
\* compiles (alone behind a scope) to an action whose level is the number of its
\* "../" markers, the "./" markers having no effect, whose attribute name is the
\* text up to the first '!', and whose chain holds the named filters in written order.
C15_SpecifierParts ==
    LET d == Directives(argv)
    IN  compiled.kind # "none" /\ AttributeSecond(d) =>
          \A ms \in SeqsUpTo(Markers, MaxPrefixes) :
            StartsWith(d[2].values[1], Flatten(ms)) =>
              \A n \in AttrNameTexts :
                StartsWith(StripPrefix(d[2].values[1], Flatten(ms)), n) =>
                  \A fs \in SeqsUpTo(RecognisedNames, MaxFilterNames) :
                    d[2].values[1] = Specifier(ms, n, fs) =>
                      /\ Len(d) = 2 => compiled.kind = "ok"
                      /\ compiled.kind = "ok" =>
                            LET action == compiled.instructions[1].actions[1]
                            IN  /\ Level(action) = NumParentMarkers(ms)
                                /\ action.attr = n
                                /\ action.filters =
                                      [k \in 1..Len(fs) |-> FilterNamed(fs[k])]

\* C15 witness: "-s a -v ./../id!tsv!unix" compiled to level 1, name id, [TSV, UNIX]
C15_Witness ==
    /\ argv = Tokens(<<Occurrence("-s", <<TextA>>),
                       Occurrence("-v", <<Specifier(<<CurrentMarker, ParentMarker>>,
                                                    NameId, <<NameTsv, NameUnix>>)>>)>>)
    /\ compiled.kind = "ok"
    /\ compiled.instructions[1].actions[1]
          = ParentAttribute(1, NameId, <<"TSVEscape", "UnixEscape">>)

\* the place behind the filter name that starts behind the '!' at i
NameEnd(sp, i) ==
    IF \E j \in (i + 1)..Len(sp) : sp[j] = Bang
    THEN Min({j \in (i + 1)..Len(sp) : sp[j] = Bang})
    ELSE Len(sp) + 1

\* the filter name behind the '!' at i
NameAt(sp, i) == SubSeq(sp, i + 1, NameEnd(sp, i) - 1)

\* the places of the '!' of a specifier that are followed by an unrecognised name
BadAt(sp) == {i \in 1..Len(sp) : sp[i] = Bang /\ NameAt(sp, i) \notin RecognisedNames}

\* the attribute directives whose specifier holds an unrecognised filter name
BadDirectives(d) ==
    {k \in 1..Len(d) : d[k].flag \in {"-v", "-V"} /\ BadAt(d[k].values[1]) # {}}

\* C16 as stated: every specifier with an unrecognised filter name makes compilation
\* fail with an error that names an unrecognised filter of that specifier.
C16_UnknownFilterNamed ==
    LET d == Directives(argv)
    IN  compiled.kind # "none" =>
          \A k \in BadDirectives(d) :
            /\ compiled.kind = "err"
            /\ \E i \in BadAt(d[k].values[1]) :
                  compiled.error = <<"Unknown filter ">> \o NameAt(d[k].values[1], i)

\* C16, amended: a specifier with an unrecognised filter name makes compilation fail,
\* and no instruction list is returned; when the command line starts with a scope
\* directive the error names the first unrecognised filter of the first such
\* specifier, and when it starts with an action directive the error is the one of
\* that directive, used before any scope.
C16_UnknownFilterFails ==
    LET d == Directives(argv)
    IN  compiled.kind # "none" /\ BadDirectives(d) # {} =>
          /\ compiled.kind = "err"
          /\ d[1].flag \in ScopeFlags =>
                LET sp == d[Min(BadDirectives(d))].values[1]
                IN  compiled.error = <<"Unknown filter ">> \o NameAt(sp, Min(BadAt(sp)))
          /\ d[1].flag \in ActionFlags =>
                compiled.error = <<"Cannot use ", d[1].flag, " before you have done a -s/-e">>

\* C16 witness: "-s a -v ../id!unix!" failed on the empty name behind the last '!'
C16_Witness ==
    /\ argv = Tokens(<<Occurrence("-s", <<TextA>>),
                       Occurrence("-v", <<Specifier(<<ParentMarker>>, NameId,
                                                    <<NameUnix, NameEmpty>>)>>)>>)
    /\ compiled = [kind |-> "err", error |-> <<"Unknown filter ">>]

\* the instruction a scope directive opens
Opens(instruction, directive) ==
    CASE directive.flag = "-S" -> instruction.kind = "StartDocument"
      [] directive.flag = "-s" ->
            instruction.kind = "StartTag" /\ instruction.tag = directive.values[1]
      [] directive.flag = "-e" ->
            instruction.kind = "EndTag" /\ instruction.tag = directive.values[1]
      [] directive.flag = "-E" -> instruction.kind = "EndDocument"
      [] OTHER -> FALSE

\* the action an action directive stands for
StandsFor(action, directive) ==
    CASE directive.flag = "-o" -> action = RawString(directive.values[1])
      [] directive.flag = "--nl" -> action = RawString(<<NL>>)
      [] directive.flag = "--tab" -> action = RawString(<<TAB>>)
      [] directive.flag = "-v" -> action.type \in {"Attribute", "ParentAttribute"}
      [] directive.flag = "-V" ->
            /\ action.type \in {"AttributeWithDefault", "ParentAttributeWithDefault"}
            /\ action.default = directive.values[2]
      [] OTHER -> FALSE

\* C17: a command line that compiles gives one instruction per scope directive, in
\* their order, each holding the actions of the action directives up to the next
\* scope directive or the end, in order; a scope directive without action directives
\* gives an instruction without actions.
C17_OneInstructionPerScope ==
    LET d == Directives(argv)
        scopes == {p \in 1..Len(d) : d[p].flag \in ScopeFlags}
    IN  compiled.kind = "ok" =>
          /\ Len(compiled.instructions) = Cardinality(scopes)
          /\ \A p \in scopes :
                LET k == Cardinality({q \in scopes : q <= p})
                    later == {q \in scopes : q > p}
                    next == IF later = {} THEN Len(d) + 1 ELSE Min(later)
                    instruction == compiled.instructions[k]
                IN  /\ Opens(instruction, d[p])
                    /\ Len(instruction.actions) = next - p - 1
                    /\ \A m \in 1..(next - p - 1) :
                          StandsFor(instruction.actions[m], d[p + m])

\* C17 witness: a scope without actions is followed by a scope with one
C17_Witness ==
    /\ compiled.kind = "ok"
    /\ Len(compiled.instructions) = 2
    /\ compiled.instructions[1].actions = <<>>
    /\ compiled.instructions[2].actions # <<>>

C19_DirectIffLevelZero ==
    LET d == Directives(argv)
    IN  compiled.kind = "ok" /\ AttributeSecond(d) =>
          \A ms \in SeqsUpTo(Markers, MaxPrefixes) :
            LET sp == d[2].values[1]
                rest == StripPrefix(sp, Flatten(ms))
                level == NumParentMarkers(ms)
                action == compiled.instructions[1].actions[1]
            IN  /\ StartsWith(sp, Flatten(ms))
                /\ ~StartsWith(rest, ParentMarker)
                /\ ~StartsWith(rest, CurrentMarker)
                => /\ d[2].flag = "-v" =>
                        /\ level = 0 <=> action.type = "Attribute"
                        /\ level # 0 =>
                              action.type = "ParentAttribute" /\ action.level = level
                   /\ d[2].flag = "-V" =>
                        /\ level = 0 <=> action.type = "AttributeWithDefault"
                        /\ level # 0 =>
                              /\ action.type = "ParentAttributeWithDefault"
                              /\ action.level = level
                        /\ action.default = d[2].values[2]

\* C19 witness: "-s a -V ../../id!tsv d" compiled to the ancestor form of level 2
C19_Witness ==
    /\ argv = Tokens(<<Occurrence("-s", <<TextA>>),
                       Occurrence("-V", <<Specifier(<<ParentMarker, ParentMarker>>,
                                                    NameId, <<NameTsv>>), TextD>>)>>)
    /\ compiled.kind = "ok"
    /\ compiled.instructions[1].actions[1]
          = ParentAttributeWithDefault(2, NameId, TextD, <<"TSVEscape">>)

\* the name of the directive a flag stands for
DirectiveName(flag) ==
    CASE flag = "-S" -> "startdoc"
      [] flag = "-s" -> "startelement"
      [] flag = "-e" -> "endelement"
      [] flag = "-E" -> "enddoc"
      [] flag = "-o" -> "raw"
      [] flag = "-v" -> "value"
      [] flag = "-V" -> "value_with_default"
      [] flag = "--nl" -> "newline"
      [] flag = "--tab" -> "tab"

\* C20: clap_app_to_ordered_matches returns one (directive, values) pair per flag
\* occurrence, in the order typed across all flags, each with its own values.
C20_OccurrencesInTypedOrder ==
    LET d == Directives(argv)
    IN  compiled.kind # "none" =>
          args = [k \in 1..Len(d) |->
                     [name |-> DirectiveName(d[k].flag), values |-> d[k].values]]

\* C20 witness: "-V ../id e --tab -V id d": a flag defined last typed between two
\* occurrences of a two-value flag
C20_Witness ==
    /\ compiled.kind # "none"
    /\ args = <<[name |-> "value_with_default",
                 values |-> <<Specifier(<<ParentMarker>>, NameId, <<>>), TextE>>],
                [name |-> "tab", values |-> <<>>],
                [name |-> "value_with_default", values |-> <<NameId, TextD>>]>>

-----------------------------------------------------------------------------
(* main: the command line is compiled, then the program is run on the input *)

\* the command lines main is started with
LineEmpty == <<>>
\* -o x
LineActionFirst == <<Occurrence("-o", <<TextX>>)>>
\* -s a -o x -v id!bad
LineUnknownFilter ==
    <<Occurrence("-s", <<TextA>>), Occurrence("-o", <<TextX>>),
      Occurrence("-v", <<Specifier(<<>>, NameId, <<NameBad>>)>>)>>
\* -S -v id
LineStartDocValue ==
    <<Occurrence("-S", <<>>), Occurrence("-v", <<NameId>>)>>
\* -s a -o x -e a -V id d
LineEndTagValue ==
    <<Occurrence("-s", <<TextA>>), Occurrence("-o", <<TextX>>),
      Occurrence("-e", <<TextA>>), Occurrence("-V", <<NameId, TextD>>)>>
\* -E -v ../id
LineEndDocValue ==
    <<Occurrence("-E", <<>>),
      Occurrence("-v", <<Specifier(<<ParentMarker>>, NameId, <<>>)>>)>>
\* -s b -V ../../id d -v ./../id!tsv
LineAncestors ==
    <<Occurrence("-s", <<TextB>>),
      Occurrence("-V", <<Specifier(<<ParentMarker, ParentMarker>>, NameId, <<>>), TextD>>),
      Occurrence("-v", <<Specifier(<<CurrentMarker, ParentMarker>>, NameId,
                                   <<NameTsv>>)>>)>>
\* -S -o x -s a -v id -e a --nl -E --tab
LineAllScopes ==
    <<Occurrence("-S", <<>>), Occurrence("-o", <<TextX>>),
      Occurrence("-s", <<TextA>>), Occurrence("-v", <<NameId>>),
      Occurrence("-e", <<TextA>>), Occurrence("--nl", <<>>),
      Occurrence("-E", <<>>), Occurrence("--tab", <<>>)>>

MainLines ==
    {LineEmpty, LineActionFirst, LineUnknownFilter, LineStartDocValue,
     LineEndTagValue, LineEndDocValue, LineAncestors, LineAllScopes}

\* the elements of the documents main reads: <a>, <a id="1"> and <b id="2&#9;">
TextElements ==
    {StartElementEvent(TextA, <<>>),
     StartElementEvent(TextA, <<OwnedAttribute(NameId, <<"1">>)>>),
     StartElementEvent(TextB, <<OwnedAttribute(NameId, <<"2", TAB>>)>>)}

\* what clap_app().print_long_help() writes
LongHelp == <<"long help">>

\* main is started
MainInit ==
    /\ argv \in {Tokens(line) : line \in MainLines}
    /\ args = <<>>
    /\ compiled = [kind |-> "none"]
    /\ instructions = <<>>
    /\ reader = [phase |-> "start", open |-> <<>>, seen_root |-> FALSE]
    /\ wev = [type |-> "None"]
    /\ events = <<>>
    /\ parent_attrs = <<>>
    /\ parent_tags = <<>>
    /\ output = <<>>
    /\ trace = <<>>
    /\ status = "compiling"
    /\ error = <<>>
    /\ FilterIdle

\* mutant: after a compilation error the executor is started on an empty program
AfterParse_RunsAnyway(c) ==
    IF c.kind = "err"
    THEN [status |-> "running", error |-> c.error, instructions |-> <<>>, output |-> <<>>]
    ELSE IF c.instructions = <<>>
    THEN [status |-> "ok", error |-> <<>>, instructions |-> <<>>, output |-> LongHelp]
    ELSE [status |-> "running", error |-> <<>>, instructions |-> c.instructions,
          output |-> <<>>]

\* main after parse_to_instructions(None): `?` returns the error, an empty program
\* prints the help and returns, any other program is handed to process()
AfterParse(c) ==
    IF c.kind = "err"
    THEN [status |-> "err", error |-> c.error, instructions |-> <<>>, output |-> <<>>]
    ELSE IF c.instructions = <<>>
    THEN [status |-> "ok", error |-> <<>>, instructions |-> <<>>, output |-> LongHelp]
    ELSE [status |-> "running", error |-> <<>>, instructions |-> c.instructions,
          output |-> <<>>]

\* main up to the call of process()
MainParse ==
    /\ status = "compiling"
    /\ args' = clap_app_to_ordered_matches(clap_app, argv)
    /\ compiled' = parse_to_instructions(args')
    /\ LET m == AfterParse(compiled')
       IN  /\ status' = m.status
           /\ error' = m.error
           /\ instructions' = m.instructions
           /\ output' = m.output
    /\ UNCHANGED <<argv, reader, wev, events, parent_attrs, parent_tags, trace,
                   filterVars>>

\* the reader yields StartElement
MainStartElement ==
    /\ status = "running"
    /\ reader.phase = "content"
    /\ Len(reader.open) < MaxDepth
    /\ NumOpened < MaxElems
    /\ \E ev \in TextElements :
          /\ reader' = [reader EXCEPT !.open = Append(@, ev.name), !.seen_root = TRUE]
          /\ Step(ev)

MainNext ==
    \/ MainParse
    \/ OnStartDocument
    \/ MainStartElement
    \/ OnEndElement
    \/ OnEndDocument
    \/ OnOtherEvent
    \/ OnReaderError
    \/ ReturnOk

SpecMain == MainInit /\ [][MainNext]_vars

\* C21: a run of main that ends with a compilation error has read no event and
\* written no byte, and the executor reads events only after a compilation that
\* succeeded.
C21_CompileErrorBeforeExecution ==
    /\ compiled.kind = "err" =>
          /\ status = "err"
          /\ error = compiled.error
          /\ events = <<>>
          /\ wev.type = "None"
          /\ reader.phase = "start"
          /\ trace = <<>>
          /\ output = <<>>
    /\ wev.type # "None" => compiled.kind = "ok"

\* C21 witness: "-s a -o x -v id!bad" ended with the unknown-filter error, the
\* literal of the directive before it unwritten
C21_Witness ==
    /\ argv = Tokens(LineUnknownFilter)
    /\ status = "err"
    /\ error = <<"Unknown filter ">> \o NameBad
    /\ output = <<>>

\* the executions of action a of instruction j, as places of the trace
RunsOf(j, a) == {k \in 1..Len(trace) : trace[k].j = j /\ trace[k].a = a}

\* the executions of the actions of the tag instructions
TagRuns ==
    {t \in 1..Len(trace) : instructions[trace[t].j].kind \in {"StartTag", "EndTag"}}

\* C22: every action of a document-start (document-end) instruction is executed only
\* on the document-start (document-end) event, exactly once when that event has been
\* handled, and before (after) every execution of an action of a tag instruction.
C22_DocumentInstructionsOnce ==
    \A j \in 1..Len(instructions) :
        instructions[j].kind \in {"StartDocument", "EndDocument"} =>
            \A a \in 1..Len(instructions[j].actions) :
                /\ Cardinality(RunsOf(j, a)) <= 1
                /\ \A k \in RunsOf(j, a) : events[trace[k].n].type = instructions[j].kind
                /\ (\E i \in 1..NumHandled : events[i].type = instructions[j].kind)
                      => Cardinality(RunsOf(j, a)) = 1
                /\ \A k \in RunsOf(j, a), t \in TagRuns :
                      IF instructions[j].kind = "StartDocument" THEN k < t ELSE t < k

\* C22 witness: a whole document under tests.rs start_doc's program: both
\* document-start instructions wrote first, the document-end instruction last
C22_Witness ==
    /\ instructions = ProgDocument
    /\ status = "ok"
    /\ wev.type = "EndDocument"
    /\ Cardinality(TagRuns) >= 2
    /\ SubSeq(output, 1, 3) = <<"S", "T", "a">>
    /\ output[Len(output)] = "E"
    /\ Cardinality({k \in 1..Len(output) : output[k] \in {"S", "T", "E"}}) = 3

\* C23: every error an action of the executor raises carries a message that is not
\* empty and names the attribute the action asked for; for a missing required
\* attribute it names the attribute, the tag and the attribute names present.
C23_ErrorsAreDescriptive ==
    status = "err" /\ wev.type # "Error" =>
        LET action == ActionOf(Len(trace))
        IN  /\ error # <<>>
            /\ \E m \in 1..Len(error) : error[m] = action.attr

\* C24: a step of process() leaves the instruction list as it is; a step that takes
\* an ignored event, or none, leaves the ancestor context and the output as they
\* are; an event no instruction is for writes nothing; document-start, document-end
\* and reader errors leave the ancestor context as it is; a tag-open event changes
\* it by at most one push, of that element, and a tag-close event by at most one
\* pop, both only when the program holds an ancestor action and the handler
\* reached its end.
C24_ContextFrame ==
    [][/\ instructions' = instructions
       /\ events' = events => UNCHANGED <<parent_attrs, parent_tags, output>>
       /\ events' # events =>
             LET ev == events'[Len(events')]
                 unchanged == UNCHANGED <<parent_attrs, parent_tags>>
                 tracked == status' = "running" /\ ~NoAncestorAction(instructions)
             IN  /\ (\A j \in 1..Len(instructions) : ~Fires(instructions[j], ev))
                       => output' = output
                 /\ ev.type \in {"StartDocument", "EndDocument", "Error"} => unchanged
                 /\ ev.type = "StartElement" =>
                       IF tracked
                       THEN /\ parent_attrs' = Append(parent_attrs, ev.attributes)
                            /\ parent_tags' = Append(parent_tags, ev.name)
                       ELSE unchanged
                 /\ ev.type = "EndElement" =>
                       IF tracked /\ parent_attrs # <<>>
                       THEN /\ parent_attrs' = SubSeq(parent_attrs, 1, Len(parent_attrs) - 1)
                            /\ parent_tags' = SubSeq(parent_tags, 1, Len(parent_tags) - 1)
                       ELSE unchanged
      ]_vars

\* C24 witness: with two elements open under a program with ancestor actions, after
\* another one was closed, an ignored event was taken
C24_Witness ==
    /\ ~NoAncestorAction(instructions)
    /\ wev.type = "Other"
    /\ status = "running"
    /\ Len(parent_attrs) = 2
    /\ \E i \in 1..Len(events) : events[i].type = "EndElement"
    /\ output # <<>>

\* C25: a run of a program the compiler accepted never reaches the todo!() of the
\* executor: the document-start, document-end and tag-close instructions of the
\* compiled program hold literal-text actions only.
C25_CompiledProgramsAreLegal ==
    compiled.kind = "ok" =>
        /\ ~(status = "panic" /\ error = <<"not yet implemented">>)
        /\ \A j \in 1..Len(compiled.instructions) :
              compiled.instructions[j].kind \in {"StartDocument", "EndDocument", "EndTag"}
                 => \A a \in 1..Len(compiled.instructions[j].actions) :
                       compiled.instructions[j].actions[a].type = "RawString"

\* the ancestor-attribute actions
AncestorTypes == {"ParentAttribute", "ParentAttributeWithDefault"}

\* the k-th executed action is an ancestor action of a tag-open instruction that went
\* past the check of its level against the size of the ancestor context
PastLevelCheck(k) ==
    /\ ActionOf(k).type \in AncestorTypes
    /\ EventOf(k).type = "StartElement"
    /\ trace[k].kind = "ok" \/ (trace[k].kind = "err" /\ error # <<>>)

\* C26: every ancestor action of a compiled program has a level of at least 1; the
\* attribute stack and the tag stack have the same length in every state; and an
\* ancestor action that passed the level check indexes them at size - level, which
\* lies in 0..size-1, so the executor never indexes out of bounds.
C26_AncestorIndexInRange ==
    compiled.kind = "ok" =>
        /\ \A j \in 1..Len(compiled.instructions) :
              \A a \in 1..Len(compiled.instructions[j].actions) :
                 compiled.instructions[j].actions[a].type \in AncestorTypes
                    => compiled.instructions[j].actions[a].level >= 1
        /\ Len(parent_attrs) = Len(parent_tags)
        /\ (status = "running" /\ ~NoAncestorAction(instructions))
              => Len(parent_attrs) = Len(OpenPathOf(events))
        /\ ~(status = "panic" /\ error = <<"index out of bounds">>)
        /\ \A k \in 1..Len(trace) :
              PastLevelCheck(k) =>
                 LET size == Len(PathOf(k))
                 IN  size - ActionOf(k).level \in 0..(size - 1)

\* C26 witness: "-s b -V ../../id d -v ./../id!tsv" ran on an element b two deep,
\* level 2 reaching the outermost entry of the context and level 1 the innermost
C26_Witness ==
    /\ argv = Tokens(LineAncestors)
    /\ status = "running"
    /\ \E k \in 1..(Len(trace) - 1) :
          /\ ActionOf(k).type = "ParentAttributeWithDefault"
          /\ ActionOf(k).level = 2
          /\ Len(PathOf(k)) = 2
          /\ trace[k].kind = "ok"
          /\ ActionOf(k + 1).type = "ParentAttribute"
          /\ trace[k + 1].kind = "ok"
          /\ trace[k + 1].n = trace[k].n
          /\ trace[k].text # trace[k + 1].text

\* the attribute list an attribute action looks at on a tag-open event: the
\* element's own for the direct actions, the enclosing element's of the action's
\* level for the ancestor ones
ListOf(k) ==
    IF is_parent_attr(ActionOf(k))
    THEN Enclosing(PathOf(k), ActionOf(k).level)
    ELSE EventOf(k).attributes

\* the attribute actions that came to their lookup on a tag-open event
AttributeLookups ==
    {k \in 1..Len(trace) :
        /\ ActionOf(k).type \in {"Attribute", "AttributeWithDefault",
                                 "ParentAttribute", "ParentAttributeWithDefault"}
        /\ EventOf(k).type = "StartElement"
        /\ is_parent_attr(ActionOf(k)) => ActionOf(k).level \in 1..Len(PathOf(k))}

\* C28: every attribute lookup, required or with default, direct or ancestor,
\* compares the requested name with the local names of the attribute list in its
\* order and takes the value of the first attribute that matches: when the list
\* holds the name the action succeeds and writes the (filtered) value at the
\* least matching position, whatever later attributes of the same name hold.
C28_FirstMatchingAttribute ==
    \A k \in AttributeLookups :
        \A m \in 1..Len(ListOf(k)) :
            /\ ListOf(k)[m].local_name = ActionOf(k).attr
            /\ \A i \in 1..(m - 1) : ListOf(k)[i].local_name # ActionOf(k).attr
            => /\ trace[k].kind = "ok"
               /\ trace[k].text = Chain(ActionOf(k).filters, ListOf(k)[m].value)

\* C28 witness: a direct and an ancestor lookup both met a list with two
\* attributes of the requested name whose values give different texts, after an
\* attribute of another name, and wrote the text of the first of the two
C28_Witness ==
    \E k1, k2 \in AttributeLookups :
        /\ ~is_parent_attr(ActionOf(k1))
        /\ is_parent_attr(ActionOf(k2))
        /\ \A k \in {k1, k2} :
              \E m, l \in 1..Len(ListOf(k)) :
                /\ 1 < m /\ m < l
                /\ ListOf(k)[m].local_name = ActionOf(k).attr
                /\ ListOf(k)[l].local_name = ActionOf(k).attr
                /\ \A i \in 1..(m - 1) : ListOf(k)[i].local_name # ActionOf(k).attr
                /\ trace[k].kind = "ok"
                /\ trace[k].text = Chain(ActionOf(k).filters, ListOf(k)[m].value)
                /\ trace[k].text # Chain(ActionOf(k).filters, ListOf(k)[l].value)

-----------------------------------------------------------------------------
(* process() as a sequential program on a finite input: the loop takes the next
   item whenever the reader has one, and the reader yields the document start, the
   root element, the end of every open element and the document end, unless it
   fails first *)

\* the reader yields the StartElement of the root
OnRootElement == ~reader.seen_root /\ OnStartElement

SpecLive ==
    /\ Init /\ [][Next]_vars
    /\ WF_vars(OnStartDocument)
    /\ WF_vars(OnRootElement)
    /\ WF_vars(OnEndElement)
    /\ WF_vars(OnEndDocument)
    /\ WF_vars(ReturnOk)

\* C27: process() ends, with success or with an error; success is returned only
\* after the reader is exhausted, every action having succeeded; an error is that of
\* the last item taken, the first that failed; the actions are executed event by
\* event, in the order of the events; and once process() has ended nothing more is
\* taken from the reader or written.
C27_Terminates ==
    /\ <>(status # "running")
    /\ [](status = "ok" =>
             /\ reader.phase = "end"
             /\ \A i \in 1..Len(events) : events[i].type # "Error"
             /\ \A k \in 1..Len(trace) : trace[k].kind = "ok")
    /\ [](status \in {"err", "panic"} =>
             /\ \A i \in 1..(Len(events) - 1) : events[i].type # "Error"
             /\ \A k \in 1..(Len(trace) - 1) : trace[k].kind = "ok"
             /\ \/ wev.type = "Error"
                \/ /\ trace # <<>>
                   /\ trace[Len(trace)].kind = status
                   /\ trace[Len(trace)].n = Len(events))
    /\ [](\A k \in 1..(Len(trace) - 1) : trace[k].n <= trace[k + 1].n)
    /\ [][status # "running" => UNCHANGED <<reader, wev, events, output, trace, status>>]_vars

\* C27 witness: an action failed on the third element of a document, after output
\* was written, and process() returned that error
C27_Witness ==
    /\ status = "err"
    /\ wev.type = "StartElement"
    /\ NumOpened = 3
    /\ output # <<>>
    /\ trace[Len(trace)].kind = "err"

====
